---- MODULE Spec2Model ----
(***************************************************************************)
(* dvd2mp4: conversion of DVD VOB files to MP4 through ffprobe / ffmpeg.   *)
(*                                                                         *)
(* The model follows src/dvd2mp4.py: main() (tool check, input directory   *)
(* check, glob + sort, grouping in split mode, the job loop),              *)
(* convert_vobs_to_mp4() (temporary directory, concatenation, audio probe, *)
(* aspect probe, transcode) and run_command() (exit-status handling in     *)
(* verbose and non-verbose mode).                                          *)
(*                                                                         *)
(* Text (paths, command output, option values) is a sequence of one-       *)
(* character strings, so that sorting, glob / regex matching, strip() and  *)
(* splitlines() are computed as Python computes them.                      *)
(***************************************************************************)
EXTENDS Integers, Sequences, FiniteSets, TLC

VARIABLES
    \* ---- the environment the process runs in (fixed during a run)
    which,        \* shutil.which: [ffmpeg |-> BOOLEAN, ffprobe |-> BOOLEAN]
    isdir,        \* os.path.isdir(input_dir)
    listing,      \* the base names present in the input directory
    \* ---- parsed command line (args)
    split, verbose, aspect, output,
    \* ---- position and locals of main() / convert_vobs_to_mp4()
    pc,           \* program position
    vob_files,    \* sorted(glob(...)) of main()
    jobs,         \* the calls of convert_vobs_to_mp4 main() will make, in order
    jobIdx,       \* index of the current / next job in jobs
    audio_stream, \* local of convert_vobs_to_mp4
    dar,          \* local of convert_vobs_to_mp4
    \* ---- effects
    tmpDirs,      \* the temporary directories that exist (mkdtemp ids)
    tmpFiles,     \* concat.VOB of each existing temporary directory: id -> copied files, in order
    tmpCount,     \* number of temporary directories created so far
    log,          \* subprocess invocations so far: job, cmd, exit status, stdout
    probes,       \* environment queries so far ("which ffmpeg", "isdir", "glob", ...)
    outputs,      \* output files written by a successful transcode
    exitCode,     \* process exit status; Running while the process runs
    exitKind,     \* how the process ended: "return", "SystemExit", "CalledProcessError", "IndexError"
    \* ---- second run of the same command line with the verbose flag flipped
    phase,        \* 1: first run, 2: second run
    prev          \* what the first run did (subprocess log, outputs, cleanup, exit status)

vars == <<which, isdir, listing, split, verbose, aspect, output, pc, vob_files,
          jobs, jobIdx, audio_stream, dar, tmpDirs, tmpFiles, tmpCount, log,
          probes, outputs, exitCode, exitKind, phase, prev>>

env   == <<which, isdir, listing>>
args  == <<split, aspect, output>>

-----------------------------------------------------------------------------
\* Bounds

\* largest number of entries in the input directory
MaxFiles == 3

-----------------------------------------------------------------------------
\* Text

\* Python's None, as a text no string of the program equals
None == <<"<None>">>

\* exit status of a process that has not ended
Running == 0 - 1

\* bool(s) of a str-or-None value
Truthy(s) == s # None /\ Len(s) > 0

\* ord(c) for the characters that occur
Ord(c) ==
    CASE c = "\n" -> 10
      [] c = " " -> 32
      [] c = "." -> 46
      [] c = "/" -> 47
      [] c = "0" -> 48
      [] c = "1" -> 49
      [] c = "2" -> 50
      [] c = "3" -> 51
      [] c = "4" -> 52
      [] c = "6" -> 54
      [] c = "9" -> 57
      [] c = ":" -> 58
      [] c = "A" -> 65
      [] c = "B" -> 66
      [] c = "F" -> 70
      [] c = "I" -> 73
      [] c = "O" -> 79
      [] c = "S" -> 83
      [] c = "T" -> 84
      [] c = "V" -> 86
      [] c = "_" -> 95
      [] c = "d" -> 100
      [] c = "m" -> 109
      [] c = "o" -> 111
      [] c = "p" -> 112
      [] c = "w" -> 119

IsDigit(c) == c \in {"0", "1", "2", "3", "4", "5", "6", "7", "8", "9"}

IsSpace(c) == c \in {" ", "\n", "\t", "\r"}

\* a < b for str: comparison by code point, a proper prefix sorts first
StrLess(a, b) ==
    \E k \in 1..(Len(b)) :
        /\ \A i \in 1..(k - 1) : i <= Len(a) /\ a[i] = b[i]
        /\ \/ k = Len(a) + 1
           \/ k <= Len(a) /\ Ord(a[k]) < Ord(b[k])

RECURSIVE SortSet(_)
\* the elements of a set of distinct strings in ascending order
SortSet(S) ==
    IF S = {} THEN <<>>
    ELSE LET m == CHOOSE x \in S : \A y \in S \ {x} : StrLess(x, y)
         IN  <<m>> \o SortSet(S \ {m})

Range(s) == {s[i] : i \in 1..Len(s)}

\* sorted(xs) / xs.sort() for a list of distinct strings
Sorted(xs) == SortSet(Range(xs))

StartsWith(s, p) == Len(s) >= Len(p) /\ SubSeq(s, 1, Len(p)) = p

EndsWith(s, p) == Len(s) >= Len(p) /\ SubSeq(s, Len(s) - Len(p) + 1, Len(s)) = p

\* s.strip()
Strip(s) ==
    IF \A i \in 1..Len(s) : IsSpace(s[i]) THEN <<>>
    ELSE LET lo == CHOOSE i \in 1..Len(s) :
                       ~IsSpace(s[i]) /\ \A j \in 1..(i - 1) : IsSpace(s[j])
             hi == CHOOSE i \in 1..Len(s) :
                       ~IsSpace(s[i]) /\ \A j \in (i + 1)..Len(s) : IsSpace(s[j])
         IN  SubSeq(s, lo, hi)

RECURSIVE SplitLines(_)
\* s.splitlines()
SplitLines(s) ==
    IF s = <<>> THEN <<>>
    ELSE IF \E i \in 1..Len(s) : s[i] = "\n"
         THEN LET k == CHOOSE i \in 1..Len(s) :
                           s[i] = "\n" /\ \A j \in 1..(i - 1) : s[j] # "\n"
              IN  <<SubSeq(s, 1, k - 1)>> \o SplitLines(SubSeq(s, k + 1, Len(s)))
         ELSE <<s>>

-----------------------------------------------------------------------------
\* Paths and file names

Mp4Ext == <<".", "m", "p", "4">>

VobExt == <<".", "V", "O", "B">>

VtsHead == <<"V", "T", "S", "_">>

\* os.path.abspath(args.input)
input_dir == <<"/", "d">>

\* os.getcwd()
Cwd == <<"/", "w">>

\* os.path.join(d, n)
Join(d, n) == d \o <<"/">> \o n

\* os.path.abspath(p)
Abspath(p) == IF StartsWith(p, <<"/">>) THEN p ELSE Join(Cwd, p)

\* p.rstrip("/")
RStripSlash(p) ==
    IF \A i \in 1..Len(p) : p[i] = "/" THEN <<>>
    ELSE LET hi == CHOOSE i \in 1..Len(p) :
                       p[i] # "/" /\ \A j \in (i + 1)..Len(p) : p[j] = "/"
         IN  SubSeq(p, 1, hi)

\* os.path.basename(p)
Basename(p) ==
    IF \E i \in 1..Len(p) : p[i] = "/"
    THEN LET k == CHOOSE i \in 1..Len(p) :
                      p[i] = "/" /\ \A j \in (i + 1)..Len(p) : p[j] # "/"
         IN  SubSeq(p, k + 1, Len(p))
    ELSE p

\* fnmatch of a base name against "VTS_??_*.VOB"
GlobMatch(n) ==
    /\ Len(n) >= 11
    /\ SubSeq(n, 1, 4) = VtsHead
    /\ n[7] = "_"
    /\ EndsWith(n, VobExt)

\* glob.glob(os.path.join(d, "VTS_??_*.VOB")) over the directory's entries
Glob(d, entries) == {Join(d, n) : n \in {e \in entries : GlobMatch(e)}}

\* the start positions at which (VTS_\d{2})_\d+\.VOB$ matches in p
RegexStarts(p) ==
    {i \in 1..Len(p) :
        /\ i + 11 <= Len(p)
        /\ SubSeq(p, i, i + 3) = VtsHead
        /\ IsDigit(p[i + 4]) /\ IsDigit(p[i + 5])
        /\ p[i + 6] = "_"
        /\ \A j \in (i + 7)..(Len(p) - 4) : IsDigit(p[j])
        /\ EndsWith(p, VobExt)}

\* m = re.search(r"(VTS_\d{2})_\d+\.VOB$", p): m is not None
RegexMatch(p) == RegexStarts(p) # {}

\* m.group(1) of the leftmost match
RegexGroup1(p) ==
    LET i == CHOOSE k \in RegexStarts(p) : \A l \in RegexStarts(p) : k <= l
    IN  SubSeq(p, i, i + 5)

\* the file names a directory of the model can hold
DirEntries ==
    { <<"V", "T", "S", "_", "0", "1", "_", "1", ".", "V", "O", "B">>,
      <<"V", "T", "S", "_", "0", "1", "_", "2", ".", "V", "O", "B">>,
      <<"V", "T", "S", "_", "0", "1", "_", "1", "0", ".", "V", "O", "B">>,
      <<"V", "T", "S", "_", "0", "2", "_", "1", ".", "V", "O", "B">>,
      <<"V", "T", "S", "_", "0", "2", "_", "2", ".", "V", "O", "B">>,
      <<"V", "T", "S", "_", "A", "B", "_", "1", ".", "V", "O", "B">>,
      <<"V", "T", "S", "_", "0", "1", "_", "0", ".", "I", "F", "O">> }

-----------------------------------------------------------------------------
\* main(): the jobs it runs

\* groups[m.group(1)].append(vf) for the files the pattern matches
GroupKeys(files) == {RegexGroup1(f) : f \in {g \in Range(files) : RegexMatch(g)}}

GroupFiles(files, prefix) ==
    SelectSeq(files, LAMBDA f : RegexMatch(f) /\ RegexGroup1(f) = prefix)

\* split mode: one call per group in sorted(groups.items()) order
SplitJobs(files) ==
    LET order == SortSet(GroupKeys(files))
    IN  [i \in 1..Len(order) |->
            [files       |-> Sorted(GroupFiles(files, order[i])),
             output_file |-> order[i] \o Mp4Ext]]

\* single mode: one call with every collected file
SingleJobs(files, out) ==
    LET name == IF Truthy(out) THEN out
                ELSE Basename(RStripSlash(input_dir)) \o Mp4Ext
    IN  << [files |-> files, output_file |-> Abspath(name)] >>

\* only the transcoder looked up
ToolsFoundFfmpegOnly(w) == w.ffmpeg

\* both tools resolvable: the loop over ("ffmpeg", "ffprobe")
ToolsFound(w) == w.ffmpeg /\ w.ffprobe

\* the queries the tool loop makes: it stops at the first missing tool
ToolProbes(w) ==
    IF w.ffmpeg THEN <<"which ffmpeg", "which ffprobe">> ELSE <<"which ffmpeg">>

-----------------------------------------------------------------------------
\* run_command()

\* run_command with the verbose branch not checking the exit status
\* (subprocess.run without check=True)
run_command_unchecked(v, capture_output, res) ==
    IF v
    THEN [kind |-> "return",
          value |-> IF capture_output THEN res.out ELSE None]
    ELSE IF res.rc # 0
         THEN [kind |-> "SystemExit", value |-> None]
         ELSE [kind |-> "return",
               value |-> IF capture_output THEN res.out ELSE None]

\* what run_command(cmd, verbose, capture_output) does when the subprocess
\* ended with exit status res.rc and standard output res.out
run_command(v, capture_output, res) ==
    IF v
    THEN IF res.rc # 0
         THEN [kind |-> "CalledProcessError", value |-> None]
         ELSE [kind |-> "return",
               value |-> IF capture_output THEN res.out ELSE None]
    ELSE IF res.rc # 0
         THEN [kind |-> "SystemExit", value |-> None]
         ELSE [kind |-> "return",
               value |-> IF capture_output THEN res.out ELSE None]

\* exit status of the interpreter: main() returned, sys.exit(1), or an
\* exception nobody caught
ExitStatus(kind) == IF kind = "return" THEN 0 ELSE 1

-----------------------------------------------------------------------------
\* convert_vobs_to_mp4(): commands and helpers

\* a field a command line does not have
NoArg == <<>>

\* os.path.join(tmpdir, "concat.VOB") of temporary directory id
concat_vob(id) == [tmpdir |-> id, name |-> "concat.VOB"]

ffprobe_audio(id) ==
    [prog |-> "ffprobe", select_streams |-> "a", show_entries |-> "stream=index",
     input |-> concat_vob(id), map_audio |-> NoArg, aspect |-> <<>>,
     output_file |-> NoArg]

ffprobe_video(id) ==
    [prog |-> "ffprobe", select_streams |-> "v:0",
     show_entries |-> "stream=display_aspect_ratio",
     input |-> concat_vob(id), map_audio |-> NoArg, aspect |-> <<>>,
     output_file |-> NoArg]

\* -aspect appended without the "if dar" test
AspectArgsAlways(d) == <<d>>

\* if dar: ffmpeg_cmd += ["-aspect", dar]  (the value that follows -aspect, if any)
AspectArgs(d) == IF Truthy(d) THEN <<d>> ELSE <<>>

ffmpeg_cmd(id, a_stream, d, out) ==
    [prog |-> "ffmpeg", select_streams |-> "", show_entries |-> "",
     input |-> concat_vob(id), map_audio |-> <<"0", ":">> \o a_stream,
     aspect |-> AspectArgs(d), output_file |-> out]

\* the empty-output test left out
NoAudioNever(audio_streams) == FALSE

\* if not audio_streams
NoAudio(audio_streams) == ~Truthy(audio_streams)

\* the override never honoured: the probe always runs
UseAspectNever(a) == FALSE

\* if aspect
UseAspect(a) == Truthy(a)

\* dar = dar.strip() if dar else None
DetectedDar(d) == IF Truthy(d) THEN Strip(d) ELSE None

\* removal on the normal path only (mkdtemp + rmtree at the end of the function)
ExitScopeLeak(dirs, id, how) == IF how = "raise" THEN dirs ELSE dirs \ {id}

\* leaving the "with tempfile.TemporaryDirectory()" block of directory id,
\* by return or by a propagating exception (how)
ExitScope(dirs, id, how) == dirs \ {id}

\* what ffprobe prints for the audio streams: one index per line
AudioOutputs == { <<>>, <<"1", "\n">>, <<"1", "\n", "2", "\n">> }

\* what ffprobe prints for the display aspect ratio
DarOutputs == { <<>>, <<"4", ":", "3", "\n">> }

ExitStatuses == {0, 1}

AudioResults == [rc : ExitStatuses, out : AudioOutputs]

DarResults == [rc : ExitStatuses, out : DarOutputs]

FfmpegResults == [rc : ExitStatuses, out : {<<>>}]

\* the results a subprocess can end with; the second run of a pair sees what
\* the first run saw for the same command at the same position
ResultsFor(cmd, all) ==
    IF phase = 2 /\ Len(log) < Len(prev.log) /\ prev.log[Len(log) + 1].cmd = cmd
    THEN {[rc |-> prev.log[Len(log) + 1].rc, out |-> prev.log[Len(log) + 1].out]}
    ELSE all

NoPrev == [log |-> <<>>, outputs |-> {}, tmpDirs |-> {}, exitCode |-> Running]

-----------------------------------------------------------------------------
\* Initial state: a command line and an environment

Aspects == { None, <<>>, <<"1", "6", ":", "9">> }

Outputs == { None, <<"o", ".", "m", "p", "4">> }

Init ==
    /\ which \in [ffmpeg : BOOLEAN, ffprobe : BOOLEAN]
    /\ isdir \in BOOLEAN
    /\ listing \in {S \in SUBSET DirEntries : Cardinality(S) <= MaxFiles}
    /\ (~isdir => listing = {})
    /\ split \in BOOLEAN
    /\ verbose \in BOOLEAN
    /\ aspect \in Aspects
    /\ output \in Outputs
    /\ pc = "tools"
    /\ vob_files = <<>>
    /\ jobs = <<>>
    /\ jobIdx = 1
    /\ audio_stream = None
    /\ dar = None
    /\ tmpDirs = {}
    /\ tmpFiles = <<>>
    /\ tmpCount = 0
    /\ log = <<>>
    /\ probes = <<>>
    /\ outputs = {}
    /\ exitCode = Running
    /\ exitKind = "running"
    /\ phase = 1
    /\ prev = NoPrev

-----------------------------------------------------------------------------
\* Actions

\* the process ends: return from main(), sys.exit(1) or an uncaught exception
End(kind) ==
    /\ pc' = "done"
    /\ exitKind' = kind
    /\ exitCode' = ExitStatus(kind)

\* main(): for tool in ("ffmpeg", "ffprobe"): shutil.which(tool)
CheckTools ==
    /\ pc = "tools"
    /\ probes' = probes \o ToolProbes(which)
    /\ IF ToolsFound(which)
       THEN pc' = "input" /\ UNCHANGED <<exitCode, exitKind>>
       ELSE End("SystemExit")
    /\ UNCHANGED <<env, args, verbose, vob_files, jobs, jobIdx, audio_stream, dar,
                   tmpDirs, tmpFiles, tmpCount, log, outputs, phase, prev>>

\* main(): os.path.isdir(input_dir)
CheckInputDir ==
    /\ pc = "input"
    /\ probes' = Append(probes, "isdir")
    /\ IF isdir
       THEN pc' = "collect" /\ UNCHANGED <<exitCode, exitKind>>
       ELSE End("SystemExit")
    /\ UNCHANGED <<env, args, verbose, vob_files, jobs, jobIdx, audio_stream, dar,
                   tmpDirs, tmpFiles, tmpCount, log, outputs, phase, prev>>

\* main(): vob_files = sorted(glob.glob(...)); if not vob_files: sys.exit(1)
CollectFiles ==
    /\ pc = "collect"
    /\ probes' = Append(probes, "glob")
    /\ vob_files' = SortSet(Glob(input_dir, listing))
    /\ IF vob_files' # <<>>
       THEN pc' = "dispatch" /\ UNCHANGED <<exitCode, exitKind>>
       ELSE End("SystemExit")
    /\ UNCHANGED <<env, args, verbose, jobs, jobIdx, audio_stream, dar,
                   tmpDirs, tmpFiles, tmpCount, log, outputs, phase, prev>>

\* main(), if args.split: group by prefix, then the loop over sorted groups
DispatchSplit ==
    /\ pc = "dispatch"
    /\ split
    /\ jobs' = SplitJobs(vob_files)
    /\ jobIdx' = 1
    /\ pc' = "loop"
    /\ UNCHANGED <<env, args, verbose, vob_files, audio_stream, dar, tmpDirs,
                   tmpFiles, tmpCount, log, probes, outputs, exitCode, exitKind,
                   phase, prev>>

\* main(), else: one call for all files
DispatchSingle ==
    /\ pc = "dispatch"
    /\ ~split
    /\ jobs' = SingleJobs(vob_files, output)
    /\ jobIdx' = 1
    /\ pc' = "loop"
    /\ UNCHANGED <<env, args, verbose, vob_files, audio_stream, dar, tmpDirs,
                   tmpFiles, tmpCount, log, probes, outputs, exitCode, exitKind,
                   phase, prev>>

\* convert_vobs_to_mp4(): create the temporary directory and write concat.VOB
BeginJob ==
    /\ pc = "loop"
    /\ jobIdx <= Len(jobs)
    /\ tmpCount' = tmpCount + 1
    /\ tmpDirs' = tmpDirs \cup {tmpCount + 1}
    /\ tmpFiles' = [d \in tmpDirs' |->
                       IF d = tmpCount + 1 THEN jobs[jobIdx].files ELSE tmpFiles[d]]
    /\ audio_stream' = None
    /\ dar' = None
    /\ pc' = "audio"
    /\ UNCHANGED <<env, args, verbose, vob_files, jobs, jobIdx, log, probes,
                   outputs, exitCode, exitKind, phase, prev>>

\* the temporary directory of the running job
tmpdir == tmpCount

\* the job's "with" block is left: the directory and its file are removed
LeaveJob(how) ==
    /\ tmpDirs' = ExitScope(tmpDirs, tmpdir, how)
    /\ tmpFiles' = [d \in tmpDirs' |-> tmpFiles[d]]

\* convert_vobs_to_mp4() returns to main(), which goes on with the next group
ReturnToMain ==
    /\ LeaveJob("return")
    /\ jobIdx' = jobIdx + 1
    /\ pc' = "loop"
    /\ UNCHANGED <<exitCode, exitKind>>

\* an exception (SystemExit included) propagates out of the job and of main()
Propagate(kind) ==
    /\ LeaveJob("raise")
    /\ End(kind)
    /\ UNCHANGED jobIdx

\* convert_vobs_to_mp4(): audio_streams = run_command(ffprobe_audio, ...)
ProbeAudio ==
    /\ pc = "audio"
    /\ \E res \in ResultsFor(ffprobe_audio(tmpdir), AudioResults) :
         LET r     == run_command(verbose, TRUE, res)
             lines == SplitLines(Strip(r.value))
         IN  /\ log' = Append(log, [job |-> jobIdx, cmd |-> ffprobe_audio(tmpdir),
                                    rc |-> res.rc, out |-> res.out])
             /\ IF r.kind # "return"
                THEN Propagate(r.kind) /\ UNCHANGED audio_stream
                ELSE IF NoAudio(r.value)
                THEN ReturnToMain /\ UNCHANGED audio_stream
                ELSE IF lines = <<>>
                THEN Propagate("IndexError") /\ UNCHANGED audio_stream
                ELSE /\ audio_stream' = lines[1]
                     /\ pc' = "aspect"
                     /\ UNCHANGED <<jobIdx, tmpDirs, tmpFiles, exitCode, exitKind>>
    /\ UNCHANGED <<env, args, verbose, vob_files, jobs, dar, tmpCount, probes,
                   outputs, phase, prev>>

\* convert_vobs_to_mp4(), if aspect: dar = aspect
UserAspect ==
    /\ pc = "aspect"
    /\ UseAspect(aspect)
    /\ dar' = aspect
    /\ pc' = "transcode"
    /\ UNCHANGED <<env, args, verbose, vob_files, jobs, jobIdx, audio_stream,
                   tmpDirs, tmpFiles, tmpCount, log, probes, outputs, exitCode,
                   exitKind, phase, prev>>

\* convert_vobs_to_mp4(), else: dar = run_command(ffprobe_video, ...)
ProbeAspect ==
    /\ pc = "aspect"
    /\ ~UseAspect(aspect)
    /\ \E res \in ResultsFor(ffprobe_video(tmpdir), DarResults) :
         LET r == run_command(verbose, TRUE, res)
         IN  /\ log' = Append(log, [job |-> jobIdx, cmd |-> ffprobe_video(tmpdir),
                                    rc |-> res.rc, out |-> res.out])
             /\ IF r.kind # "return"
                THEN Propagate(r.kind) /\ UNCHANGED dar
                ELSE /\ dar' = DetectedDar(r.value)
                     /\ pc' = "transcode"
                     /\ UNCHANGED <<jobIdx, tmpDirs, tmpFiles, exitCode, exitKind>>
    /\ UNCHANGED <<env, args, verbose, vob_files, jobs, audio_stream, tmpCount,
                   probes, outputs, phase, prev>>

\* convert_vobs_to_mp4(): run_command(ffmpeg_cmd, verbose=verbose)
Transcode ==
    /\ pc = "transcode"
    /\ LET cmd == ffmpeg_cmd(tmpdir, audio_stream, dar, jobs[jobIdx].output_file)
       IN  \E res \in ResultsFor(cmd, FfmpegResults) :
             LET r == run_command(verbose, FALSE, res)
             IN  /\ log' = Append(log, [job |-> jobIdx, cmd |-> cmd,
                                        rc |-> res.rc, out |-> res.out])
                 /\ IF r.kind # "return"
                    THEN Propagate(r.kind) /\ UNCHANGED outputs
                    ELSE /\ outputs' = outputs \cup {jobs[jobIdx].output_file}
                         /\ ReturnToMain
    /\ UNCHANGED <<env, args, verbose, vob_files, jobs, audio_stream, dar,
                   tmpCount, probes, phase, prev>>

\* main() returns after the last call
Finish ==
    /\ pc = "loop"
    /\ jobIdx > Len(jobs)
    /\ End("return")
    /\ UNCHANGED <<env, args, verbose, vob_files, jobs, jobIdx, audio_stream, dar,
                   tmpDirs, tmpFiles, tmpCount, log, probes, outputs, phase, prev>>

\* what a run did, as seen from outside the process
Observed ==
    [log |-> log, outputs |-> outputs, tmpDirs |-> tmpDirs, exitCode |-> exitCode]

\* the same command line is run again in the same environment with the
\* verbose flag flipped
RunAgain ==
    /\ pc = "done"
    /\ phase = 1
    /\ phase' = 2
    /\ prev' = Observed
    /\ verbose' = ~verbose
    /\ pc' = "tools"
    /\ vob_files' = <<>>
    /\ jobs' = <<>>
    /\ jobIdx' = 1
    /\ audio_stream' = None
    /\ dar' = None
    /\ tmpDirs' = {}
    /\ tmpFiles' = <<>>
    /\ tmpCount' = 0
    /\ log' = <<>>
    /\ probes' = <<>>
    /\ outputs' = {}
    /\ exitCode' = Running
    /\ exitKind' = "running"
    /\ UNCHANGED <<env, args>>

Next ==
    \/ CheckTools
    \/ CheckInputDir
    \/ CollectFiles
    \/ DispatchSplit
    \/ DispatchSingle
    \/ BeginJob
    \/ ProbeAudio
    \/ UserAspect
    \/ ProbeAspect
    \/ Transcode
    \/ Finish

Spec == Init /\ [][Next]_vars

NextPair == Next \/ RunAgain

SpecPair == Init /\ [][NextPair]_vars

-----------------------------------------------------------------------------
\* Properties

IsAudioProbe(e) == e.cmd.prog = "ffprobe" /\ e.cmd.show_entries = "stream=index"

IsAspectProbe(e) ==
    e.cmd.prog = "ffprobe" /\ e.cmd.show_entries = "stream=display_aspect_ratio"

IsTranscode(e) == e.cmd.prog = "ffmpeg"

\* the audio probe ended with status 0 and listed no stream
ListsNoAudio(e) == IsAudioProbe(e) /\ e.rc = 0 /\ e.out = <<>>

\* no job is running: main() is before, between or after the calls
OutsideJob == pc \in {"tools", "input", "collect", "dispatch", "loop", "done"}

\* C1: once a job has ended, however it ended, its temporary directory and
\* the concat.VOB in it are gone; at most one temporary concatenation file
\* exists at any moment.
C1_TempRemoved ==
    /\ OutsideJob => tmpDirs = {} /\ DOMAIN tmpFiles = {}
    /\ Cardinality(tmpDirs) <= 1
    /\ Cardinality(DOMAIN tmpFiles) <= 1

\* C1 witness: a verbose split run whose second job died of an uncaught
\* CalledProcessError, after two temporary directories had been created.
C1_Witness ==
    /\ pc = "done" /\ split /\ verbose
    /\ exitKind = "CalledProcessError"
    /\ tmpCount = 2
    /\ tmpDirs = {}

\* C2: in single mode, an audio probe that reports no audio stream makes the
\* run end with exit status 1, and no output file exists.
C2_NoAudioFailsSingleRun ==
    (/\ pc = "done"
     /\ ~split
     /\ \E i \in DOMAIN log : ListsNoAudio(log[i]))
    => (exitCode = 1 /\ outputs = {})

\* C3: a job whose audio probe succeeds and lists no stream invokes neither
\* the aspect probe nor the transcoder, and does not end the run: in split
\* mode the next group is processed, and a run that ends with status 0 has
\* processed every group.
C3_NoAudioSkipsJob ==
    \A i \in DOMAIN log :
        ListsNoAudio(log[i]) =>
            /\ \A k \in DOMAIN log :
                   log[k].job = log[i].job =>
                       ~IsAspectProbe(log[k]) /\ ~IsTranscode(log[k])
            /\ (i = Len(log) => exitCode # 1)
            /\ (split /\ pc = "done" /\ log[i].job < Len(jobs)) =>
                   \E k \in DOMAIN log :
                       k > i /\ log[k].job = log[i].job + 1 /\ IsAudioProbe(log[k])
            /\ (split /\ pc = "done" /\ exitCode = 0) =>
                   \A j \in 1..Len(jobs) :
                       \E k \in DOMAIN log : log[k].job = j /\ IsAudioProbe(log[k])

\* C3 witness: a finished split run whose first group had no audio stream and
\* whose second group was transcoded.
C3_Witness ==
    /\ pc = "done" /\ split
    /\ \E i, k \in DOMAIN log :
           /\ ListsNoAudio(log[i]) /\ log[i].job = 1
           /\ IsTranscode(log[k]) /\ log[k].job = 2 /\ log[k].rc = 0

\* C4: a transcoder that exits non-zero ends the whole run with exit status
\* 1: it is the last subprocess invoked, and no temporary directory is
\* created for a later group.
C4_TranscodeFailureAborts ==
    \A i \in DOMAIN log :
        (IsTranscode(log[i]) /\ log[i].rc # 0) =>
            /\ i = Len(log)
            /\ pc = "done"
            /\ exitCode = 1
            /\ tmpCount = log[i].job
            /\ tmpDirs = {}

\* C4 witness: a verbose split run with two groups whose first transcode
\* failed.
C4_Witness ==
    /\ split /\ verbose /\ Len(jobs) = 2
    /\ \E i \in DOMAIN log :
           IsTranscode(log[i]) /\ log[i].rc # 0 /\ log[i].job = 1

\* the aspect probe failed: it exited non-zero, or it yielded no value
AspectProbeFailed(e) ==
    IsAspectProbe(e) /\ (e.rc # 0 \/ Strip(e.out) = <<>>)

\* the entry after log[i] is the transcode of the same job, without -aspect
TranscodedWithoutAspect(i) ==
    /\ i < Len(log)
    /\ IsTranscode(log[i + 1])
    /\ log[i + 1].job = log[i].job
    /\ log[i + 1].cmd.aspect = <<>>

\* C5 (as claimed): whenever the aspect probe fails (non-zero exit, or no
\* value), the job still invokes the transcoder, without -aspect.
C5_AspectFailureNonFatal ==
    pc = "done" =>
        \A i \in DOMAIN log :
            AspectProbeFailed(log[i]) => TranscodedWithoutAspect(i)

\* C5 (amended): an aspect probe that exits 0 and yields no value is followed
\* by the job's transcode without -aspect; an aspect probe that exits non-zero
\* is the last subprocess of the run, which ends with exit status 1.
C5_EmptyAspectNonFatal ==
    \A i \in DOMAIN log :
        IsAspectProbe(log[i]) =>
            IF log[i].rc # 0
            THEN i = Len(log) /\ pc = "done" /\ exitCode = 1
            ELSE Strip(log[i].out) = <<>> =>
                     \/ i = Len(log) /\ pc = "transcode" /\ exitCode = Running
                     \/ TranscodedWithoutAspect(i)

\* C5 witness: an aspect probe that printed nothing, followed by a transcode.
C5_Witness ==
    \E i \in DOMAIN log :
        /\ IsAspectProbe(log[i]) /\ log[i].rc = 0 /\ log[i].out = <<>>
        /\ TranscodedWithoutAspect(i)

\* every transcode carries -aspect with the --aspect value and there is no
\* aspect probe
OverrideHonoured ==
    \A i \in DOMAIN log :
        /\ ~IsAspectProbe(log[i])
        /\ IsTranscode(log[i]) => log[i].cmd.aspect = <<aspect>>

\* C6 (as claimed): for any supplied value of --aspect, every transcode of the
\* run carries -aspect with that value and the aspect probe never runs.
C6_AnyOverrideHonoured == aspect # None => OverrideHonoured

\* C6 (amended): for any supplied non-empty value of --aspect, every
\* transcode of the run carries -aspect with that value and the aspect probe
\* never runs.
C6_NonEmptyOverrideHonoured == (aspect # None /\ aspect # <<>>) => OverrideHonoured

\* C6 witness: a split run with an override that transcoded two groups.
C6_Witness ==
    /\ aspect # None /\ aspect # <<>>
    /\ \E i, k \in DOMAIN log :
           /\ IsTranscode(log[i]) /\ log[i].job = 1
           /\ IsTranscode(log[k]) /\ log[k].job = 2

DigitValue(c) ==
    CASE c = "0" -> 0 [] c = "1" -> 1 [] c = "2" -> 2 [] c = "3" -> 3
      [] c = "4" -> 4 [] c = "5" -> 5 [] c = "6" -> 6 [] c = "7" -> 7
      [] c = "8" -> 8 [] c = "9" -> 9

RECURSIVE DecimalValue(_)
DecimalValue(ds) ==
    IF ds = <<>> THEN 0
    ELSE 10 * DecimalValue(SubSeq(ds, 1, Len(ds) - 1)) + DigitValue(ds[Len(ds)])

\* a file of the DVD naming convention: VTS_<two digits>_<digits>.VOB
IsTitleSetFile(f) ==
    LET n == Basename(f)
    IN  /\ Len(n) >= 12
        /\ SubSeq(n, 1, 4) = VtsHead
        /\ IsDigit(n[5]) /\ IsDigit(n[6]) /\ n[7] = "_"
        /\ \A j \in 8..(Len(n) - 4) : IsDigit(n[j])
        /\ EndsWith(n, VobExt)

TitleSetOf(f) == SubSeq(Basename(f), 1, 6)

SequenceIndexOf(f) ==
    LET n == Basename(f) IN DecimalValue(SubSeq(n, 8, Len(n) - 4))

\* C7: in every concatenation, the files of one title set appear in strictly
\* ascending numeric sequence-index order.
C7_AscendingSequenceIndex ==
    \A d \in DOMAIN tmpFiles :
        \A i, j \in DOMAIN tmpFiles[d] :
            (/\ i < j
             /\ IsTitleSetFile(tmpFiles[d][i]) /\ IsTitleSetFile(tmpFiles[d][j])
             /\ TitleSetOf(tmpFiles[d][i]) = TitleSetOf(tmpFiles[d][j]))
            => SequenceIndexOf(tmpFiles[d][i]) < SequenceIndexOf(tmpFiles[d][j])

\* the run cannot pass the pre-flight checks
PreflightFails ==
    \/ ~which.ffmpeg
    \/ ~which.ffprobe
    \/ ~isdir
    \/ \A e \in listing : ~GlobMatch(e)

\* C8: a run that fails pre-flight invokes no subprocess, creates no
\* temporary file and ends with exit status 1; with a tool missing, the input
\* directory is never examined.
C8_PreflightFailure ==
    /\ PreflightFails =>
           /\ log = <<>> /\ tmpCount = 0 /\ tmpDirs = {} /\ outputs = {}
           /\ pc = "done" => exitCode = 1
    /\ (~which.ffmpeg \/ ~which.ffprobe) =>
           \A i \in DOMAIN probes : probes[i] \notin {"isdir", "glob"}

\* C8 witness: both tools and the directory exist, the directory is not
\* empty, nothing in it matches the pattern, and the run has ended.
C8_Witness ==
    /\ pc = "done"
    /\ which.ffmpeg /\ which.ffprobe /\ isdir
    /\ listing # {}
    /\ \A e \in listing : ~GlobMatch(e)
    /\ probes = <<"which ffmpeg", "which ffprobe", "isdir", "glob">>

\* main() has built the list of calls it makes
JobsBuilt == pc \in {"loop", "audio", "aspect", "transcode"} \/ (pc = "done" /\ vob_files # <<>>)

\* C9: in split mode every collected file is in exactly one job, that of its
\* prefix, there is one job per prefix, in ascending prefix order, writing
\* <prefix>.mp4 whatever --output says, and at least one job; in single mode
\* there is exactly one job, holding all collected files.
C9_JobsPartitionFiles ==
    JobsBuilt =>
        IF split
        THEN /\ Len(jobs) >= 1
             /\ \A i \in DOMAIN vob_files :
                    /\ Cardinality({j \in DOMAIN jobs :
                           vob_files[i] \in Range(jobs[j].files)}) = 1
                    /\ \A j \in DOMAIN jobs :
                           vob_files[i] \in Range(jobs[j].files) =>
                               jobs[j].output_file =
                                   SubSeq(Basename(vob_files[i]), 1, 6) \o Mp4Ext
             /\ \A j, k \in DOMAIN jobs :
                    j < k => StrLess(jobs[j].output_file, jobs[k].output_file)
        ELSE /\ Len(jobs) = 1
             /\ jobs[1].files = vob_files

\* a is a prefix of b
IsPrefix(a, b) == Len(a) <= Len(b) /\ SubSeq(b, 1, Len(a)) = a

\* C10: a run and the run that differs from it in the verbose flag only,
\* given the same files and the same subprocess results, invoke the same
\* subprocesses with the same arguments in the same order, write the same
\* output files, leave the same temporary files and end with the same exit
\* status.
C10_VerboseNoEffect ==
    phase = 2 =>
        /\ IsPrefix(log, prev.log)
        /\ pc = "done" => Observed = prev

\* C10 witness: the second, verbose, run of a pair has ended after a failed
\* transcode in its second group.
C10_Witness ==
    /\ phase = 2 /\ pc = "done" /\ verbose
    /\ exitCode = 1
    /\ log # <<>>
    /\ IsTranscode(log[Len(log)]) /\ log[Len(log)].job = 2

====
